---- MODULE Spec2Model ----
(***************************************************************************)
(* vnet-manager: machine lifecycle operations                              *)
(* (src/vnet_manager/operations/machine.py) against an LXD backend, and    *)
(* the VNet bridge interfaces (src/vnet_manager/operations/interface.py)   *)
(* against the kernel's links, iptables and the process table.             *)
(*                                                                         *)
(* The program is single-threaded: one operation runs at a time and `pc`   *)
(* is its position.  The LXD backend is asynchronous: a command issued     *)
(* without wait=True is only pending and the backend completes it in a     *)
(* step of its own.  `trace` is the history of the running operation:      *)
(* every backend call, sleep, confirmation prompt and error/warning log    *)
(* line, in the order the code issues them.                                *)
(***************************************************************************)
EXTENDS Integers, Sequences, FiniteSets, TLC

VARIABLES
    settings,     \* vnet_manager.conf.settings: the poller's three knobs
    lxd,          \* the backend: per container its live status and pending operation
    pc,           \* position of the running operation ("done": none is running)
    op,           \* the running (or last) operation and its arguments
    idx,          \* index of the batch loop (1-based)
    to_create,    \* containers_to_create
    already,      \* containers_already_created
    container,    \* the container object returned by containers.get (static status)
    wi,           \* loop variable i of wait_for_lxc_machine_status
    target,       \* status argument of wait_for_lxc_machine_status
    waitResult,   \* outcome of wait_for_lxc_machine_status
    trace,        \* history of the running operation
    raised,       \* exception that left the running operation, "none" otherwise
    config,       \* the config of the run: switches and machines
    links,        \* the kernel's links: per VNet interface name, existence, state, MAC
    rules,        \* iptables: per VNet interface name, number of OUTPUT DROP rules
    sniffers,     \* process table: per VNet interface name, number of tcpdump processes
    sniffer,      \* the sniffer argument of bring_up_vnet_interfaces
    pre,          \* links and rules as they were when the running operation was called
    netplan,      \* what generate_machine_netplan_config returned
    devices,      \* device_config of create_lxc_machines_from_base_image
    table         \* statuses of show_status

\* what the machine status, create and destroy operations leave alone
ext == <<config, links, rules, sniffers, sniffer, pre, netplan, devices, table>>

vars == <<settings, lxd, pc, op, idx, to_create, already, container, wi, target,
          waitResult, trace, raised, config, links, rules, sniffers, sniffer, pre,
          netplan, devices, table>>

----------------------------------------------------------------------------
(* Bounds *)

\* longest explicit machine list passed to a batch operation
MaxBatch == 2
\* largest LXC_MAX_STATUS_WAIT_ATTEMPTS tried
MaxAttempts == 3
\* largest LXC_STATUS_WAIT_SLEEP tried
MaxSleep == 2
\* largest LXC_STATUS_BACKOFF_MULTIPLIER tried
MaxMultiplier == 2
\* largest config["switches"] tried
MaxSwitches == 2
\* largest bridge index an interface of the config may name
MaxBridge == 5

----------------------------------------------------------------------------
(* The configuration: config["machines"] and the names a caller may pass *)

\* config["machines"].keys(), in dict order
ConfigKeys == <<"m1", "m2">>

ConfigMachines == {ConfigKeys[i] : i \in 1..Len(ConfigKeys)}

\* names a caller may pass: the configured ones and one without config entry
Names == ConfigMachines \cup {"m3"}

\* settings.VALID_STATUSES
VALID_STATUSES == {"start", "stop"}

\* status strings a caller may pass
StatusArgs == VALID_STATUSES \cup {"restart"}

\* settings.VNET_BRIDGE_NAME
VNET_BRIDGE_NAME == "vnet-br"

\* str(i): the decimal digits of i
RECURSIVE Str(_)
Str(i) == IF i < 10 THEN <<i>> ELSE Append(Str(i \div 10), i % 10)

\* settings.VNET_BRIDGE_NAME + str(i): a name is the prefix followed by the digits
IfName(i) == <<VNET_BRIDGE_NAME>> \o Str(i)

\* get_vnet_interface_names_from_config(config)
VnetInterfaceNames(cfg) == [k \in 1..cfg.switches |-> IfName(k - 1)]

\* every VNet interface name a config of the model may declare
AllIfNames == {IfName(i) : i \in 0..(MaxSwitches - 1)}

\* one interface of a machine: `bridge` and `mac`, and of ipv4, ipv6 and routes
\* the keys in opts
InterfaceData(bridge, mac, opts) ==
    [k \in {"bridge", "mac"} \cup opts |->
        CASE k = "bridge" -> bridge
          [] k = "mac"    -> mac
          [] k = "ipv4"   -> "10.0.0.1/24"
          [] k = "ipv6"   -> "fd00::1/64"
          [] k = "routes" -> <<[to |-> "default", via |-> "10.0.0.254"]>>]

\* config["machines"] of the lifecycle and interface operations
DefaultMachines ==
    [m \in ConfigMachines |->
        [type |-> "host",
         interfaces |-> [i \in {"eth1"} |-> InterfaceData(0, "aa:bb:cc:dd:ee:01", {"ipv4"})]]]

RECURSIVE SeqsUpTo(_, _)
SeqsUpTo(S, n) ==
    IF n = 0 THEN {<<>>}
    ELSE LET shorter == SeqsUpTo(S, n - 1)
         IN  shorter \cup {Append(s, x) : s \in {t \in shorter : Len(t) = n - 1}, x \in S}

\* the `machines` argument: None (given = FALSE) or an explicit list
MachineArgs ==
    {[given |-> FALSE, list |-> <<>>]}
        \cup {[given |-> TRUE, list |-> l] : l \in SeqsUpTo(Names, MaxBatch)}

----------------------------------------------------------------------------
(* Helpers *)

\* str.lower() on the status strings of the backend
Lower(s) ==
    CASE s = "Running" -> "running"
      [] s = "Stopped" -> "stopped"
      [] s = "NA"      -> "na"
      [] OTHER         -> s

\* one entry of the history
Ev(e, m, a, n) == [ev |-> e, m |-> m, arg |-> a, n |-> n]

\* the entries of the history with the given kind
Events(e) == SelectSeq(trace, LAMBDA x : x.ev = e)

\* positions of the history holding an entry of one of the given kinds
Positions(kinds) == {p \in 1..Len(trace) : trace[p].ev \in kinds}

\* `machines if machines else config["machines"].keys()`
ResolveMachines(arg) == IF arg.given /\ Len(arg.list) > 0 THEN arg.list ELSE ConfigKeys

\* the machine the batch loop is at
Cur == op.machines[idx]

NoOp == [name |-> "none", status |-> "", arg |-> [given |-> FALSE, list |-> <<>>],
         machines |-> <<>>]

NoContainer == [name |-> "", status |-> "NA"]

NoLink == [exists |-> FALSE, state |-> "NA", mac |-> 0]

NoDocument == [result |-> "none"]

\* no interface operation has run and nothing was compiled or listed: no VNet
\* link, rule or capture process exists
ExtIdle ==
    /\ config = [switches |-> MaxSwitches, machines |-> DefaultMachines]
    /\ links = [n \in AllIfNames |-> NoLink]
    /\ rules = [n \in AllIfNames |-> 0]
    /\ sniffers = [n \in AllIfNames |-> 0]
    /\ sniffer = FALSE
    /\ pre = [links |-> links, rules |-> rules]
    /\ netplan = NoDocument
    /\ devices = NoDocument
    /\ table = <<>>

----------------------------------------------------------------------------
(* wait_for_lxc_machine_status *)

\* sleep_time = i * (LXC_STATUS_WAIT_SLEEP * LXC_STATUS_BACKOFF_MULTIPLIER)
SleepTimeExponential(i) == settings.sleep * (settings.mult ^ i)

SleepTime(i) == i * (settings.sleep * settings.mult)

\* `for i in range(1, LXC_MAX_STATUS_WAIT_ATTEMPTS)`: the loop still has an iteration
WaitHasAttempt == wi < settings.attempts

\* container.state().status.lower() == status.lower(): converged, return
WaitProbeConverged ==
    /\ pc = "wait"
    /\ WaitHasAttempt
    /\ Lower(lxd[container.name].status) = Lower(target)
    /\ trace' = Append(trace, Ev("probe", container.name, lxd[container.name].status, wi))
    /\ waitResult' = "ok"
    /\ pc' = "wait_ret"
    /\ UNCHANGED <<ext, settings, lxd, op, idx, to_create, already, container, wi, target, raised>>

\* the probe does not show the target: go on to the sleep
WaitProbeNotYet ==
    /\ pc = "wait"
    /\ WaitHasAttempt
    /\ Lower(lxd[container.name].status) # Lower(target)
    /\ trace' = Append(trace, Ev("probe", container.name, lxd[container.name].status, wi))
    /\ pc' = "wait_sleep"
    /\ UNCHANGED <<ext, settings, lxd, op, idx, to_create, already, container, wi, target,
                   waitResult, raised>>

\* sleep(sleep_time), then the next iteration
WaitSleep ==
    /\ pc = "wait_sleep"
    /\ trace' = Append(trace, Ev("sleep", container.name, "backoff", SleepTime(wi)))
    /\ wi' = wi + 1
    /\ pc' = "wait"
    /\ UNCHANGED <<ext, settings, lxd, op, idx, to_create, already, container, target,
                   waitResult, raised>>

\* the loop is exhausted: raise TimeoutError
WaitTimeout ==
    /\ pc = "wait"
    /\ ~WaitHasAttempt
    /\ waitResult' = "Timeout"
    /\ pc' = "wait_ret"
    /\ UNCHANGED <<ext, settings, lxd, op, idx, to_create, already, container, wi, target,
                   trace, raised>>

\* the backend's status as a probe sees it may be anything from one probe to the next
StatusDrift ==
    /\ pc \in {"wait", "wait_sleep"}
    /\ \E s \in {"Stopped", "Running"} :
          /\ s # lxd[container.name].status
          /\ lxd' = [lxd EXCEPT ![container.name].status = s]
    /\ UNCHANGED <<ext, settings, pc, op, idx, to_create, already, container, wi, target,
                   waitResult, trace, raised>>

\* wait_for_lxc_machine_status(container, status) called on an existing container,
\* for every setting of the three knobs
InitPoller ==
    /\ settings \in [attempts : 1..MaxAttempts, sleep : 1..MaxSleep, mult : 1..MaxMultiplier]
    /\ \E s \in {"Stopped", "Running"} :
          lxd = [m \in ConfigMachines |->
                    IF m = "m1" THEN [status |-> s, pending |-> "none"]
                    ELSE [status |-> "NA", pending |-> "none"]]
    /\ \E st \in VALID_STATUSES :
          /\ op = [name |-> "change_machine_status", status |-> st,
                   arg |-> [given |-> TRUE, list |-> <<"m1">>], machines |-> <<"m1">>]
          /\ target = IF st = "stop" THEN "Stopped" ELSE "Running"
    /\ pc = "wait"
    /\ idx = 1
    /\ to_create = <<>>
    /\ already = FALSE
    /\ container = [name |-> "m1", status |-> lxd["m1"].status]
    /\ wi = 1
    /\ waitResult = "none"
    /\ trace = <<>>
    /\ raised = "none"
    /\ ExtIdle

NextPoller ==
    \/ WaitProbeConverged
    \/ WaitProbeNotYet
    \/ WaitSleep
    \/ WaitTimeout
    \/ StatusDrift

SpecPoller == InitPoller /\ [][NextPoller]_vars

----------------------------------------------------------------------------
(* The LXD backend *)

\* a pending operation completes: an asynchronous stop stops the container,
\* an asynchronous delete removes it
BackendProgress ==
    /\ \E m \in ConfigMachines :
          /\ lxd[m].pending # "none"
          /\ lxd' = [lxd EXCEPT ![m] =
                        IF lxd[m].pending = "stop"
                        THEN [status |-> "Stopped", pending |-> "none"]
                        ELSE [status |-> "NA", pending |-> "none"]]
    /\ UNCHANGED <<ext, settings, pc, op, idx, to_create, already, container, wi, target,
                   waitResult, trace, raised>>

\* an operation ends: normally, or by the exception e leaving it
Finish(e) ==
    /\ pc' = "done"
    /\ raised' = e

\* a call starts: the history of the previous one is dropped
Begin(name, status, arg) ==
    /\ pc = "done"
    /\ op' = [name |-> name, status |-> status, arg |-> arg, machines |-> ResolveMachines(arg)]
    /\ idx' = 1
    /\ to_create' = <<>>
    /\ already' = FALSE
    /\ container' = NoContainer
    /\ wi' = 1
    /\ target' = ""
    /\ waitResult' = "none"
    /\ trace' = <<>>

----------------------------------------------------------------------------
(* change_machine_status *)

\* mutant: the status is not validated
CallChangeMachineStatusUnchecked(status, arg) ==
    /\ Begin("change_machine_status", status, arg)
    /\ pc' = "cms_loop"
    /\ raised' = "none"
    /\ UNCHANGED <<ext, settings, lxd>>

\* change_machine_status(config, status, machines): the status check, then the loop
CallChangeMachineStatus(status, arg) ==
    /\ Begin("change_machine_status", status, arg)
    /\ IF status \notin VALID_STATUSES
       THEN Finish("NotImplementedError")
       ELSE pc' = "cms_loop" /\ raised' = "none"
    /\ UNCHANGED <<ext, settings, lxd>>

\* the loop is over: return
CmsReturn ==
    /\ pc = "cms_loop"
    /\ idx > Len(op.machines)
    /\ Finish("none")
    /\ UNCHANGED <<ext, settings, lxd, op, idx, to_create, already, container, wi, target,
                   waitResult, trace>>

\* mutant: a name without config entry ends the batch with a KeyError
CmsSkipMissingRaises ==
    /\ pc = "cms_loop"
    /\ idx <= Len(op.machines)
    /\ Cur \notin ConfigMachines
    /\ Finish("KeyError")
    /\ UNCHANGED <<ext, settings, lxd, op, idx, to_create, already, container, wi, target,
                   waitResult, trace>>

\* `machine not in config["machines"]`: log an error, continue
CmsSkipMissing ==
    /\ pc = "cms_loop"
    /\ idx <= Len(op.machines)
    /\ Cur \notin ConfigMachines
    /\ trace' = Append(trace, Ev("log", Cur, "error:no_config", 0))
    /\ idx' = idx + 1
    /\ UNCHANGED <<ext, settings, lxd, pc, op, to_create, already, container, wi, target,
                   waitResult, raised>>

\* the provider's change_lxc_machine_status is called for the machine
CmsDispatch ==
    /\ pc = "cms_loop"
    /\ idx <= Len(op.machines)
    /\ Cur \in ConfigMachines
    /\ pc' = "clms_get"
    /\ UNCHANGED <<ext, settings, lxd, op, idx, to_create, already, container, wi, target,
                   waitResult, trace, raised>>

----------------------------------------------------------------------------
(* change_lxc_machine_status *)

\* client.containers.get(machine) raises NotFound: log an error, return
ClmsGetNotFound ==
    /\ pc = "clms_get"
    /\ lxd[Cur].status = "NA"
    /\ trace' = trace \o <<Ev("get", Cur, "NotFound", 0), Ev("log", Cur, "error:not_found", 0)>>
    /\ idx' = idx + 1
    /\ pc' = "cms_loop"
    /\ UNCHANGED <<ext, settings, lxd, op, to_create, already, container, wi, target,
                   waitResult, raised>>

\* client.containers.get(machine) returns the container
ClmsGet ==
    /\ pc = "clms_get"
    /\ lxd[Cur].status # "NA"
    /\ container' = [name |-> Cur, status |-> lxd[Cur].status]
    /\ trace' = Append(trace, Ev("get", Cur, lxd[Cur].status, 0))
    /\ pc' = "clms_cmd"
    /\ UNCHANGED <<ext, settings, lxd, op, idx, to_create, already, wi, target, waitResult, raised>>

\* machine.stop(): the stop is issued and not waited for
ClmsStop ==
    /\ pc = "clms_cmd"
    /\ op.status = "stop"
    /\ trace' = Append(trace, Ev("stop", Cur, "ok", 0))
    /\ lxd' = [lxd EXCEPT ![Cur].pending =
                  IF lxd[Cur].status = "Running" THEN "stop" ELSE lxd[Cur].pending]
    /\ pc' = "clms_nap"
    /\ UNCHANGED <<ext, settings, op, idx, to_create, already, container, wi, target,
                   waitResult, raised>>

\* machine.stop() raises LXDAPIException: nothing catches it
ClmsStopFails ==
    /\ pc = "clms_cmd"
    /\ op.status = "stop"
    /\ trace' = Append(trace, Ev("stop", Cur, "raised", 0))
    /\ Finish("LXDAPIException")
    /\ UNCHANGED <<ext, settings, lxd, op, idx, to_create, already, container, wi, target,
                   waitResult>>

\* machine.start(wait=True): the container runs when the call returns
ClmsStart ==
    /\ pc = "clms_cmd"
    /\ op.status = "start"
    /\ lxd[Cur].pending # "delete"
    /\ trace' = Append(trace, Ev("start", Cur, "ok", 0))
    /\ lxd' = [lxd EXCEPT ![Cur] = [status |-> "Running", pending |-> "none"]]
    /\ pc' = "clms_nap"
    /\ UNCHANGED <<ext, settings, op, idx, to_create, already, container, wi, target,
                   waitResult, raised>>

\* mutant: the failed start is logged and the settle delay and the wait follow anyway
ClmsStartFailsWaits ==
    /\ pc = "clms_cmd"
    /\ op.status = "start"
    /\ trace' = trace \o <<Ev("start", Cur, "raised", 0), Ev("log", Cur, "error:start_failed", 0)>>
    /\ pc' = "clms_nap"
    /\ UNCHANGED <<ext, settings, lxd, op, idx, to_create, already, container, wi, target,
                   waitResult, raised>>

\* machine.start(wait=True) raises LXDAPIException: log an error, return
ClmsStartFails ==
    /\ pc = "clms_cmd"
    /\ op.status = "start"
    /\ trace' = trace \o <<Ev("start", Cur, "raised", 0), Ev("log", Cur, "error:start_failed", 0)>>
    /\ idx' = idx + 1
    /\ pc' = "cms_loop"
    /\ UNCHANGED <<ext, settings, lxd, op, to_create, already, container, wi, target,
                   waitResult, raised>>

\* sleep(1), then wait_for_lxc_machine_status(machine, required_state) is entered
ClmsNap ==
    /\ pc = "clms_nap"
    /\ trace' = Append(trace, Ev("sleep", Cur, "settle", 1))
    /\ target' = IF op.status = "stop" THEN "Stopped" ELSE "Running"
    /\ wi' = 1
    /\ waitResult' = "none"
    /\ pc' = "wait"
    /\ UNCHANGED <<ext, settings, lxd, op, idx, to_create, already, container, raised>>

\* the wait returned: logger.debug reads machine.state().status once more
ClmsConverged ==
    /\ pc = "wait_ret"
    /\ waitResult = "ok"
    /\ trace' = Append(trace, Ev("probe", Cur, lxd[Cur].status, 0))
    /\ idx' = idx + 1
    /\ pc' = "cms_loop"
    /\ UNCHANGED <<ext, settings, lxd, op, to_create, already, container, wi, target,
                   waitResult, raised>>

\* mutant: the TimeoutError is not caught
ClmsTimeoutEscapes ==
    /\ pc = "wait_ret"
    /\ waitResult = "Timeout"
    /\ Finish("TimeoutError")
    /\ UNCHANGED <<ext, settings, lxd, op, idx, to_create, already, container, wi, target,
                   waitResult, trace>>

\* `except TimeoutError`: log an error, return
ClmsTimeout ==
    /\ pc = "wait_ret"
    /\ waitResult = "Timeout"
    /\ trace' = Append(trace, Ev("log", Cur, "error:timeout", 0))
    /\ idx' = idx + 1
    /\ pc' = "cms_loop"
    /\ UNCHANGED <<ext, settings, lxd, op, to_create, already, container, wi, target,
                   waitResult, raised>>

----------------------------------------------------------------------------
(* create_machines, create_lxc_machines_from_base_image *)

\* create_machines(config, machines): the selection loop is entered
CallCreateMachines(arg) ==
    /\ Begin("create_machines", "", arg)
    /\ pc' = "clc_select"
    /\ raised' = "none"
    /\ UNCHANGED <<ext, settings, lxd>>

\* `container not in config["machines"]`: log an error
ClcSelectMissing ==
    /\ pc = "clc_select"
    /\ idx <= Len(op.machines)
    /\ Cur \notin ConfigMachines
    /\ trace' = Append(trace, Ev("log", Cur, "error:no_config", 0))
    /\ idx' = idx + 1
    /\ UNCHANGED <<ext, settings, lxd, pc, op, to_create, already, container, wi, target,
                   waitResult, raised>>

\* mutant: a container that already exists is selected for creation all the same
ClcSelectExistsStillSelected ==
    /\ pc = "clc_select"
    /\ idx <= Len(op.machines)
    /\ Cur \in ConfigMachines
    /\ lxd[Cur].status # "NA"
    /\ trace' = trace \o <<Ev("exists", Cur, "true", 0), Ev("log", Cur, "error:already_exists", 0)>>
    /\ already' = TRUE
    /\ to_create' = Append(to_create, Cur)
    /\ idx' = idx + 1
    /\ UNCHANGED <<ext, settings, lxd, pc, op, container, wi, target, waitResult, raised>>

\* check_if_lxc_machine_exists(container) is true: log an error, set the flag
ClcSelectExists ==
    /\ pc = "clc_select"
    /\ idx <= Len(op.machines)
    /\ Cur \in ConfigMachines
    /\ lxd[Cur].status # "NA"
    /\ trace' = trace \o <<Ev("exists", Cur, "true", 0), Ev("log", Cur, "error:already_exists", 0)>>
    /\ already' = TRUE
    /\ idx' = idx + 1
    /\ UNCHANGED <<ext, settings, lxd, pc, op, to_create, container, wi, target, waitResult, raised>>

\* the machine does not exist and LXC provides it: containers_to_create.append
ClcSelectAdd ==
    /\ pc = "clc_select"
    /\ idx <= Len(op.machines)
    /\ Cur \in ConfigMachines
    /\ lxd[Cur].status = "NA"
    /\ trace' = Append(trace, Ev("exists", Cur, "false", 0))
    /\ to_create' = Append(to_create, Cur)
    /\ idx' = idx + 1
    /\ UNCHANGED <<ext, settings, lxd, pc, op, already, container, wi, target, waitResult, raised>>

\* the selection loop is over: the creation loop starts
ClcSelectDone ==
    /\ pc = "clc_select"
    /\ idx > Len(op.machines)
    /\ idx' = 1
    /\ pc' = "clc_create"
    /\ UNCHANGED <<ext, settings, lxd, op, to_create, already, container, wi, target,
                   waitResult, trace, raised>>

\* client.containers.create(container_config, wait=True): the container exists, stopped
ClcCreate ==
    /\ pc = "clc_create"
    /\ idx <= Len(to_create)
    /\ lxd[to_create[idx]].status = "NA"
    /\ trace' = Append(trace, Ev("create", to_create[idx], "ok", 0))
    /\ lxd' = [lxd EXCEPT ![to_create[idx]] = [status |-> "Stopped", pending |-> "none"]]
    /\ pc' = "clc_write"
    /\ UNCHANGED <<ext, settings, op, idx, to_create, already, container, wi, target,
                   waitResult, raised>>

\* client.containers.create raises LXDAPIException: nothing catches it
ClcCreateFails ==
    /\ pc = "clc_create"
    /\ idx <= Len(to_create)
    /\ trace' = Append(trace, Ev("create", to_create[idx], "raised", 0))
    /\ Finish("LXDAPIException")
    /\ UNCHANGED <<ext, settings, lxd, op, idx, to_create, already, container, wi, target,
                   waitResult>>

\* place_lxc_interface_configuration_on_container: the network config is written
ClcWrite ==
    /\ pc = "clc_write"
    /\ trace' = Append(trace, Ev("write", to_create[idx], "ok", 0))
    /\ idx' = idx + 1
    /\ pc' = "clc_create"
    /\ UNCHANGED <<ext, settings, lxd, op, to_create, already, container, wi, target,
                   waitResult, raised>>

\* the write raises: nothing catches it
ClcWriteFails ==
    /\ pc = "clc_write"
    /\ trace' = Append(trace, Ev("write", to_create[idx], "raised", 0))
    /\ Finish("LXDAPIException")
    /\ UNCHANGED <<ext, settings, lxd, op, idx, to_create, already, container, wi, target,
                   waitResult>>

\* the creation loop is over and no container existed already: return
ClcReturn ==
    /\ pc = "clc_create"
    /\ idx > Len(to_create)
    /\ ~already
    /\ Finish("none")
    /\ UNCHANGED <<ext, settings, lxd, op, idx, to_create, already, container, wi, target,
                   waitResult, trace>>

\* mutant: the function returns without asking although a container existed
ClcAskConfirmationSkipped ==
    /\ pc = "clc_create"
    /\ idx > Len(to_create)
    /\ already
    /\ Finish("none")
    /\ UNCHANGED <<ext, settings, lxd, op, idx, to_create, already, container, wi, target,
                   waitResult, trace>>

\* the creation loop is over and some container existed already: ask the user
ClcAskConfirmation ==
    /\ pc = "clc_create"
    /\ idx > Len(to_create)
    /\ already
    /\ pc' = "clc_confirm"
    /\ UNCHANGED <<ext, settings, lxd, op, idx, to_create, already, container, wi, target,
                   waitResult, trace, raised>>

\* request_confirmation(message, prompt): the user confirms and it returns, or
\* the user declines and it raises
RequestConfirmation(next) ==
    \/ /\ trace' = Append(trace, Ev("confirm", "", "returned", 0))
       /\ pc' = next
       /\ UNCHANGED raised
    \/ /\ trace' = Append(trace, Ev("confirm", "", "raised", 0))
       /\ Finish("UserWarning")

\* the confirmation that ends create_lxc_machines_from_base_image
ClcConfirm ==
    /\ pc = "clc_confirm"
    /\ RequestConfirmation("done")
    /\ UNCHANGED <<ext, settings, lxd, op, idx, to_create, already, container, wi, target,
                   waitResult>>

----------------------------------------------------------------------------
(* destroy_machines, destroy_lxc_machine *)

\* mutant: the loop is entered without the confirmation
CallDestroyMachinesUnconfirmed(arg) ==
    /\ Begin("destroy_machines", "", arg)
    /\ pc' = "dm_loop"
    /\ raised' = "none"
    /\ UNCHANGED <<ext, settings, lxd>>

\* destroy_machines(config, machines): the confirmation comes first
CallDestroyMachines(arg) ==
    /\ Begin("destroy_machines", "", arg)
    /\ pc' = "dm_confirm"
    /\ raised' = "none"
    /\ UNCHANGED <<ext, settings, lxd>>

\* the confirmation that opens destroy_machines
DmConfirm ==
    /\ pc = "dm_confirm"
    /\ RequestConfirmation("dm_loop")
    /\ UNCHANGED <<ext, settings, lxd, op, idx, to_create, already, container, wi, target,
                   waitResult>>

\* the loop is over: return
DmReturn ==
    /\ pc = "dm_loop"
    /\ idx > Len(op.machines)
    /\ Finish("none")
    /\ UNCHANGED <<ext, settings, lxd, op, idx, to_create, already, container, wi, target,
                   waitResult, trace>>

\* `machine not in config["machines"]`: log an error, continue
DmSkipMissing ==
    /\ pc = "dm_loop"
    /\ idx <= Len(op.machines)
    /\ Cur \notin ConfigMachines
    /\ trace' = Append(trace, Ev("log", Cur, "error:no_config", 0))
    /\ idx' = idx + 1
    /\ UNCHANGED <<ext, settings, lxd, pc, op, to_create, already, container, wi, target,
                   waitResult, raised>>

\* the provider's destroy_lxc_machine is called for the machine
DmDispatch ==
    /\ pc = "dm_loop"
    /\ idx <= Len(op.machines)
    /\ Cur \in ConfigMachines
    /\ pc' = "dlm_get"
    /\ UNCHANGED <<ext, settings, lxd, op, idx, to_create, already, container, wi, target,
                   waitResult, trace, raised>>

\* mutant: a container that is not found is deleted all the same
DlmGetNotFoundDeletes ==
    /\ pc = "dlm_get"
    /\ lxd[Cur].status = "NA"
    /\ trace' = Append(trace, Ev("get", Cur, "NotFound", 0))
    /\ container' = [name |-> Cur, status |-> "NA"]
    /\ pc' = "dlm_delete"
    /\ UNCHANGED <<ext, settings, lxd, op, idx, to_create, already, wi, target, waitResult, raised>>

\* client.containers.get(machine) raises NotFound: log a warning, return
DlmGetNotFound ==
    /\ pc = "dlm_get"
    /\ lxd[Cur].status = "NA"
    /\ trace' = trace \o <<Ev("get", Cur, "NotFound", 0), Ev("log", Cur, "warning:not_found", 0)>>
    /\ idx' = idx + 1
    /\ pc' = "dm_loop"
    /\ UNCHANGED <<ext, settings, lxd, op, to_create, already, container, wi, target,
                   waitResult, raised>>

\* client.containers.get(machine) returns the container, whose status is read once
DlmGet ==
    /\ pc = "dlm_get"
    /\ lxd[Cur].status # "NA"
    /\ container' = [name |-> Cur, status |-> lxd[Cur].status]
    /\ trace' = Append(trace, Ev("get", Cur, lxd[Cur].status, 0))
    /\ pc' = "dlm_check"
    /\ UNCHANGED <<ext, settings, lxd, op, idx, to_create, already, wi, target, waitResult, raised>>

\* mutant: the stop is issued without waiting for it
DlmStopNoWait ==
    /\ pc = "dlm_check"
    /\ Lower(container.status) = "running"
    /\ trace' = Append(trace, Ev("stop", Cur, "ok", 0))
    /\ lxd' = [lxd EXCEPT ![Cur].pending =
                  IF lxd[Cur].status = "Running" THEN "stop" ELSE lxd[Cur].pending]
    /\ pc' = "dlm_delete"
    /\ UNCHANGED <<ext, settings, op, idx, to_create, already, container, wi, target,
                   waitResult, raised>>

\* container.status is running: container.stop(wait=True), stopped when it returns
DlmStop ==
    /\ pc = "dlm_check"
    /\ Lower(container.status) = "running"
    /\ trace' = Append(trace, Ev("stop", Cur, "ok", 0))
    /\ lxd' = [lxd EXCEPT ![Cur] = [status |-> "Stopped", pending |-> "none"]]
    /\ pc' = "dlm_delete"
    /\ UNCHANGED <<ext, settings, op, idx, to_create, already, container, wi, target,
                   waitResult, raised>>

\* container.stop(wait=True) raises LXDAPIException: nothing catches it
DlmStopFails ==
    /\ pc = "dlm_check"
    /\ Lower(container.status) = "running"
    /\ trace' = Append(trace, Ev("stop", Cur, "raised", 0))
    /\ Finish("LXDAPIException")
    /\ UNCHANGED <<ext, settings, lxd, op, idx, to_create, already, container, wi, target,
                   waitResult>>

\* container.status is not running: straight to the delete
DlmNotRunning ==
    /\ pc = "dlm_check"
    /\ Lower(container.status) # "running"
    /\ pc' = "dlm_delete"
    /\ UNCHANGED <<ext, settings, lxd, op, idx, to_create, already, container, wi, target,
                   waitResult, trace, raised>>

\* container.delete(wait=False): the delete is issued and not waited for
DlmDelete ==
    /\ pc = "dlm_delete"
    /\ lxd[Cur].status # "Running"
    /\ trace' = Append(trace, Ev("delete", Cur, "ok", 0))
    /\ lxd' = [lxd EXCEPT ![Cur].pending = IF lxd[Cur].status = "NA" THEN "none" ELSE "delete"]
    /\ idx' = idx + 1
    /\ pc' = "dm_loop"
    /\ UNCHANGED <<ext, settings, op, to_create, already, container, wi, target,
                   waitResult, raised>>

\* container.delete raises LXDAPIException: nothing catches it
DlmDeleteFails ==
    /\ pc = "dlm_delete"
    /\ trace' = Append(trace, Ev("delete", Cur, "raised", 0))
    /\ Finish("LXDAPIException")
    /\ UNCHANGED <<ext, settings, lxd, op, idx, to_create, already, container, wi, target,
                   waitResult>>

----------------------------------------------------------------------------
(* The program *)

Init ==
    /\ settings = [attempts |-> MaxAttempts, sleep |-> 1, mult |-> 1]
    /\ lxd = [m \in ConfigMachines |-> [status |-> "NA", pending |-> "none"]]
    /\ pc = "done"
    /\ op = NoOp
    /\ idx = 1
    /\ to_create = <<>>
    /\ already = FALSE
    /\ container = NoContainer
    /\ wi = 1
    /\ target = ""
    /\ waitResult = "none"
    /\ trace = <<>>
    /\ raised = "none"
    /\ ExtIdle

Next ==
    \/ \E status \in StatusArgs, arg \in MachineArgs : CallChangeMachineStatus(status, arg)
    \/ CmsReturn
    \/ CmsSkipMissing
    \/ CmsDispatch
    \/ ClmsGetNotFound
    \/ ClmsGet
    \/ ClmsStop
    \/ ClmsStopFails
    \/ ClmsStart
    \/ ClmsStartFails
    \/ ClmsNap
    \/ WaitProbeConverged
    \/ WaitProbeNotYet
    \/ WaitSleep
    \/ WaitTimeout
    \/ ClmsConverged
    \/ ClmsTimeout
    \/ \E arg \in MachineArgs : CallCreateMachines(arg)
    \/ ClcSelectMissing
    \/ ClcSelectExists
    \/ ClcSelectAdd
    \/ ClcSelectDone
    \/ ClcCreate
    \/ ClcCreateFails
    \/ ClcWrite
    \/ ClcWriteFails
    \/ ClcReturn
    \/ ClcAskConfirmation
    \/ ClcConfirm
    \/ \E arg \in MachineArgs : CallDestroyMachines(arg)
    \/ DmConfirm
    \/ DmReturn
    \/ DmSkipMissing
    \/ DmDispatch
    \/ DlmGetNotFound
    \/ DlmGet
    \/ DlmStop
    \/ DlmStopFails
    \/ DlmNotRunning
    \/ DlmDelete
    \/ DlmDeleteFails
    \/ BackendProgress

Spec == Init /\ [][Next]_vars

----------------------------------------------------------------------------
(* Properties of the convergence poller *)

\* the running operation is inside wait_for_lxc_machine_status
InWait == pc \in {"wait", "wait_sleep", "wait_ret"}

\* the history of the wait that is running: what follows the last settle sleep
CurrentWait ==
    LET naps  == {p \in 1..Len(trace) : trace[p].ev = "sleep" /\ trace[p].arg = "settle"}
        start == IF naps = {} THEN 0 ELSE CHOOSE p \in naps : \A q \in naps : q <= p
    IN  SubSeq(trace, start + 1, Len(trace))

WaitProbes == SelectSeq(CurrentWait, LAMBDA x : x.ev = "probe")

WaitSleeps == SelectSeq(CurrentWait, LAMBDA x : x.ev = "sleep")

\* C1: with attempt budget N the wait fails with Timeout only after N probes
\* that all failed to show the target, and it succeeds on a probe among 1..N
\* that shows the target.
C1_TimeoutOnlyAfterMaxAttemptsProbes ==
    (pc = "wait_ret") =>
        /\ waitResult = "Timeout" =>
              /\ Len(WaitProbes) = settings.attempts
              /\ \A k \in 1..Len(WaitProbes) : Lower(WaitProbes[k].arg) # Lower(target)
        /\ waitResult = "ok" =>
              /\ Len(WaitProbes) \in 1..settings.attempts
              /\ Lower(WaitProbes[Len(WaitProbes)].arg) = Lower(target)

\* C2: no sleep precedes the first probe; the k-th sleep follows the k-th
\* failed probe and lasts k * baseInterval * backoffMultiplier; a Timeout comes
\* after maxAttempts - 1 sleeps (2 sleeps, of 1 and 2, for maxAttempts = 3 with
\* interval and multiplier 1).
C2_LinearBackoffSchedule ==
    InWait =>
        /\ \A p \in 1..Len(CurrentWait) :
              IF p % 2 = 1
              THEN CurrentWait[p].ev = "probe"
              ELSE /\ CurrentWait[p].ev = "sleep"
                   /\ CurrentWait[p - 1].ev = "probe"
                   /\ Lower(CurrentWait[p - 1].arg) # Lower(target)
                   /\ CurrentWait[p].n = (p \div 2) * settings.sleep * settings.mult
        /\ (pc = "wait_ret" /\ waitResult = "Timeout") =>
              /\ Len(WaitSleeps) = settings.attempts - 1
              /\ (settings = [attempts |-> 3, sleep |-> 1, mult |-> 1]) =>
                    /\ Len(WaitSleeps) = 2
                    /\ WaitSleeps[1].n = 1
                    /\ WaitSleeps[2].n = 2

\* a wait for Running with budget 3, interval 1, multiplier 1 that only ever saw
\* Stopped has timed out
C2_Witness ==
    /\ pc = "wait_ret"
    /\ waitResult = "Timeout"
    /\ settings = [attempts |-> 3, sleep |-> 1, mult |-> 1]
    /\ target = "Running"
    /\ Len(WaitSleeps) = 2
    /\ \A k \in 1..Len(WaitProbes) : WaitProbes[k].arg = "Stopped"

----------------------------------------------------------------------------
(* Properties of the batch operations *)

BackendEvents == {"get", "exists", "create", "write", "start", "stop", "delete", "probe"}

\* C3: in a batch create or destroy no backend failure unwinds the batch loop.
C3_BackendFailureNeverUnwindsBatch ==
    ~ /\ pc = "done"
      /\ op.name \in {"create_machines", "destroy_machines"}
      /\ raised = "LXDAPIException"

\* number of list positions that name a configured machine
ListedConfigured == Cardinality({i \in 1..Len(op.machines) : op.machines[i] \in ConfigMachines})

\* a status change that returned has dealt with every listed machine: one lookup
\* for each configured name, a command for each container found, a settle sleep
\* and a finished wait for each command that went through
CmsComplete ==
    (op.name = "change_machine_status" /\ pc = "done" /\ raised = "none") =>
        LET gets   == Events("get")
            found  == SelectSeq(gets, LAMBDA x : x.arg # "NotFound")
            cmds   == SelectSeq(trace, LAMBDA x : x.ev \in {"start", "stop"})
            issued == SelectSeq(cmds, LAMBDA x : x.arg = "ok")
            naps   == SelectSeq(trace, LAMBDA x : x.ev = "sleep" /\ x.arg = "settle")
            ended  == SelectSeq(trace, LAMBDA x :
                          \/ x.ev = "probe" /\ x.n = 0
                          \/ x.ev = "log" /\ x.arg = "error:timeout")
        IN  /\ Len(gets) = ListedConfigured
            /\ Len(cmds) = Len(found)
            /\ \A k \in 1..Len(cmds) : cmds[k].m = found[k].m /\ cmds[k].ev = op.status
            /\ Len(naps) = Len(issued)
            /\ Len(ended) = Len(naps)

\* C4: a Timeout of the wait does not leave change_machine_status: it is logged
\* as an error for that machine, the loop goes on with the next machine, and
\* the batch deals with every machine that remains.
C4_TimeoutLoggedBatchContinues ==
    [][ /\ (pc = "wait_ret" /\ waitResult = "Timeout" /\ pc' # pc) =>
              /\ pc' = "cms_loop"
              /\ idx' = idx + 1
              /\ raised' = "none"
              /\ trace' = Append(trace, Ev("log", Cur, "error:timeout", 0))
        /\ CmsComplete'
      ]_vars

\* a batch of two returned after the first machine timed out and the second
\* was commanded and waited for
C4_Witness ==
    /\ op.name = "change_machine_status"
    /\ pc = "done"
    /\ raised = "none"
    /\ Len(op.machines) = 2
    /\ \E p \in 1..Len(trace) :
          /\ trace[p] = Ev("log", op.machines[1], "error:timeout", 0)
          /\ \E q \in (p + 1)..Len(trace) :
                /\ trace[q].ev = "stop"
                /\ trace[q].m = op.machines[2]
                /\ \E r \in (q + 1)..Len(trace) : trace[r].ev = "probe"

\* C5: a listed name without config entry is logged as an error and skipped
\* with no backend call for it, the other listed machines are dealt with
\* whether they come before or after it, and the skip raises nothing.
C5_MissingNameSkipped ==
    [][ /\ (/\ pc = "cms_loop"
            /\ idx <= Len(op.machines)
            /\ op.machines[idx] \notin ConfigMachines
            /\ <<pc, idx, raised>>' # <<pc, idx, raised>>) =>
              /\ pc' = "cms_loop"
              /\ idx' = idx + 1
              /\ raised' = "none"
              /\ lxd' = lxd
              /\ trace' = Append(trace, Ev("log", Cur, "error:no_config", 0))
        /\ (op.name = "change_machine_status" =>
              \A p \in 1..Len(trace) :
                 trace[p].ev \in BackendEvents => trace[p].m \in ConfigMachines)'
        /\ CmsComplete'
      ]_vars

\* a batch returned that skipped a missing name between two configured machines
\* or before one, and commanded the configured machine after it
C5_Witness ==
    /\ op.name = "change_machine_status"
    /\ pc = "done"
    /\ raised = "none"
    /\ \E p \in 1..Len(trace) :
          /\ trace[p].ev = "log"
          /\ trace[p].arg = "error:no_config"
          /\ \E q \in (p + 1)..Len(trace) : trace[q].ev \in {"start", "stop"}

\* C6: a status string that is not valid fails with NotImplementedError before
\* any backend operation is issued, and the backend is left as it was.
C6_InvalidStatusFailsFirst ==
    [][ /\ (/\ pc = "done"
            /\ op'.name = "change_machine_status"
            /\ op'.status \notin VALID_STATUSES
            /\ <<op, trace, raised>>' # <<op, trace, raised>>) =>
              /\ pc' = "done"
              /\ raised' = "NotImplementedError"
              /\ trace' = <<>>
              /\ lxd' = lxd
        /\ ((op.name = "change_machine_status" /\ op.status \notin VALID_STATUSES) =>
              /\ pc = "done"
              /\ raised = "NotImplementedError"
              /\ trace = <<>>)'
      ]_vars

\* an invalid status was refused while a container exists
C6_Witness ==
    /\ op.name = "change_machine_status"
    /\ op.status \notin VALID_STATUSES
    /\ raised = "NotImplementedError"
    /\ \E m \in ConfigMachines : lxd[m].status = "Running"

\* C7: destroying a machine that the backend does not have returns without
\* error and without a stop or delete; the backend is left as it was, so a
\* second destroy adds nothing to the first.
C7_DestroyAbsentIsNoop ==
    [][ /\ (pc = "dlm_get" /\ lxd[Cur].status = "NA" /\ pc' # pc) =>
              /\ pc' = "dm_loop"
              /\ idx' = idx + 1
              /\ raised' = "none"
              /\ lxd' = lxd
              /\ trace' = trace \o <<Ev("get", Cur, "NotFound", 0),
                                     Ev("log", Cur, "warning:not_found", 0)>>
        /\ (op.name = "destroy_machines" =>
              \A p \in 1..Len(trace) :
                 (trace[p].ev = "get" /\ trace[p].arg = "NotFound") =>
                    /\ p < Len(trace)
                    /\ trace[p + 1] = Ev("log", trace[p].m, "warning:not_found", 0)
                    /\ (p + 2 <= Len(trace)) => trace[p + 2].ev \in {"get", "log"})'
      ]_vars

\* the same machine was destroyed twice in a row: deleted, then found absent
C7_Witness ==
    /\ op.name = "destroy_machines"
    /\ pc = "done"
    /\ raised = "none"
    /\ \E p \in 1..Len(trace) :
          /\ trace[p].ev = "delete"
          /\ trace[p].arg = "ok"
          /\ \E q \in (p + 1)..Len(trace) :
                trace[q] = Ev("get", trace[p].m, "NotFound", 0)

\* C8: a delete is never issued on a container that is running; destroy of a
\* running container issues stop-and-wait, which has returned before the
\* delete, and destroy of one that is not running issues no stop.
C8_StopBeforeDelete ==
    [][ /\ (pc = "dlm_delete" /\ pc' # pc) => lxd[Cur].status # "Running"
        /\ (op.name = "destroy_machines" =>
              \A p \in 1..Len(trace) :
                 trace[p].ev = "delete" =>
                    /\ p > 2
                    /\ \/ /\ trace[p - 1] = Ev("stop", trace[p].m, "ok", 0)
                          /\ trace[p - 2] = Ev("get", trace[p].m, "Running", 0)
                       \/ /\ trace[p - 1].ev = "get"
                          /\ trace[p - 1].m = trace[p].m
                          /\ trace[p - 1].arg \notin {"Running", "NotFound"})'
      ]_vars

\* a running container was stopped and then deleted
C8_Witness ==
    /\ op.name = "destroy_machines"
    /\ \E p \in 3..Len(trace) :
          /\ trace[p].ev = "delete"
          /\ trace[p].arg = "ok"
          /\ trace[p - 1] = Ev("stop", trace[p].m, "ok", 0)
          /\ trace[p - 2] = Ev("get", trace[p].m, "Running", 0)

\* C9: destroy_machines asks for confirmation exactly once, before anything
\* else, and issues a stop or delete only after the confirmation has returned.
C9_ConfirmationGateFirst ==
    (op.name = "destroy_machines") =>
        /\ (pc = "dm_confirm") => trace = <<>>
        /\ (pc # "dm_confirm") =>
              /\ Len(trace) >= 1
              /\ trace[1].ev = "confirm"
              /\ Len(Events("confirm")) = 1
        /\ \A p \in Positions({"get", "stop", "delete"}) :
              /\ p > 1
              /\ trace[1] = Ev("confirm", "", "returned", 0)

\* a confirmed destroy has deleted a container
C9_Witness ==
    /\ op.name = "destroy_machines"
    /\ pc = "done"
    /\ \E p \in 1..Len(trace) : trace[p].ev = "delete" /\ trace[p].arg = "ok"

\* the requested machines whose existence check was false, in request order
SelectedForCreation ==
    LET checks == SelectSeq(trace, LAMBDA x : x.ev = "exists" /\ x.arg = "false")
    IN  [k \in 1..Len(checks) |-> checks[k].m]

\* C10: batch create issues a create only for the requests whose existence
\* check was false; a machine that exists is logged and skipped without
\* raising and without a configuration write, and the requested machines that
\* do not exist are still created.
C10_ExistingMachineSkipped ==
    (op.name = "create_machines") =>
        LET creates == Events("create")
            writes  == SelectSeq(trace, LAMBDA x : x.ev = "write" /\ x.arg = "ok")
            made    == SelectSeq(creates, LAMBDA x : x.arg = "ok")
        IN  /\ to_create = SelectedForCreation
            /\ Len(creates) <= Len(to_create)
            /\ \A k \in 1..Len(creates) : creates[k].m = to_create[k]
            /\ Len(writes) <= Len(made)
            /\ \A k \in 1..Len(writes) : writes[k].m = made[k].m
            /\ \A p \in 1..Len(trace) :
                  (trace[p].ev = "exists" /\ trace[p].arg = "true") =>
                     /\ p < Len(trace)
                     /\ trace[p + 1] = Ev("log", trace[p].m, "error:already_exists", 0)
                     /\ already
            /\ (\A i, j \in 1..Len(op.machines) : i # j => op.machines[i] # op.machines[j]) =>
                  \A p, q \in 1..Len(trace) :
                     (trace[p].ev = "exists" /\ trace[p].arg = "true") =>
                        ~(trace[q].ev \in {"create", "write"} /\ trace[q].m = trace[p].m)
            /\ (raised = "LXDAPIException") =>
                  trace[Len(trace)].ev \in {"create", "write"}
            /\ (pc = "done" /\ raised # "LXDAPIException") =>
                  /\ Len(made) = Len(to_create)
                  /\ Len(writes) = Len(to_create)

\* a batch over a machine that exists and one that does not: the first was
\* skipped, the second created and configured
C10_Witness ==
    /\ op.name = "create_machines"
    /\ pc = "done"
    /\ \E p \in 1..Len(trace) :
          /\ trace[p].ev = "exists"
          /\ trace[p].arg = "true"
          /\ \E q \in (p + 1)..Len(trace) :
                /\ trace[q] = Ev("create", trace[q].m, "ok", 0)
                /\ trace[q].m # trace[p].m
                /\ q < Len(trace)
                /\ trace[q + 1] = Ev("write", trace[q].m, "ok", 0)


----------------------------------------------------------------------------
(* The VNet bridge interfaces: interface.py *)

\* what the interface operations leave alone
mach == <<settings, lxd, to_create, already, container, wi, target, waitResult,
          netplan, devices, table>>

\* an interface operation starts: the history of the previous operation is dropped
BeginInterfaces(name) ==
    /\ pc = "done"
    /\ op' = [name |-> name, status |-> "", arg |-> [given |-> FALSE, list |-> <<>>],
              machines |-> <<>>]
    /\ idx' = 1
    /\ trace' = <<>>
    /\ raised' = "none"
    /\ pre' = [links |-> links, rules |-> rules]

\* the interface the loop over get_vnet_interface_names_from_config(config) is at
CurIf == VnetInterfaceNames(config)[idx]

InLoop == idx <= config.switches

\* check_if_interface_exists(ifname)
InterfaceExists(n) == links[n].exists

\* check_if_sniffer_exists(ifname): a process has tcpdump and ifname in its cmdline
SnifferExists(n) == sniffers[n] > 0

\* a netlink request is refused: NetlinkError, which nothing catches
NetlinkFails ==
    /\ pc \in {"create_add", "conf_down", "conf_mac", "conf_up", "up_set", "down_set",
               "del_link"}
    /\ trace' = Append(trace, Ev("netlink_error", CurIf, pc, 0))
    /\ Finish("NetlinkError")
    /\ UNCHANGED <<mach, op, idx, config, links, rules, sniffers, sniffer, pre>>

\* a tcpdump process ends
SnifferExits ==
    /\ pc = "done"
    /\ \E n \in AllIfNames :
          /\ sniffers[n] > 0
          /\ sniffers' = [sniffers EXCEPT ![n] = @ - 1]
    /\ UNCHANGED <<mach, pc, op, idx, trace, raised, config, links, rules, sniffer, pre>>

(* bring_up_vnet_interfaces *)

\* bring_up_vnet_interfaces(config, sniffer)
CallBringUp(sn) ==
    /\ BeginInterfaces("bring_up_vnet_interfaces")
    /\ sniffer' = sn
    /\ pc' = "up_loop"
    /\ UNCHANGED <<mach, config, links, rules, sniffers>>

\* the loop is over: return
UpReturn ==
    /\ pc = "up_loop"
    /\ ~InLoop
    /\ Finish("none")
    /\ UNCHANGED <<mach, op, idx, trace, config, links, rules, sniffers, sniffer, pre>>

\* `not check_if_interface_exists(ifname)`: create_vnet_interface is called
UpInterfaceMissing ==
    /\ pc = "up_loop"
    /\ InLoop
    /\ ~InterfaceExists(CurIf)
    /\ trace' = Append(trace, Ev("link_lookup", CurIf, "false", 0))
    /\ pc' = "create_add"
    /\ UNCHANGED <<mach, op, idx, raised, config, links, rules, sniffers, sniffer, pre>>

\* mutant: an interface that exists is configured again
UpInterfaceExistsReconfigured ==
    /\ pc = "up_loop"
    /\ InLoop
    /\ InterfaceExists(CurIf)
    /\ trace' = Append(trace, Ev("link_lookup", CurIf, "true", 0))
    /\ pc' = "conf_down"
    /\ UNCHANGED <<mach, op, idx, raised, config, links, rules, sniffers, sniffer, pre>>

\* the interface exists: straight to the iptables rules
UpInterfaceExists ==
    /\ pc = "up_loop"
    /\ InLoop
    /\ InterfaceExists(CurIf)
    /\ trace' = Append(trace, Ev("link_lookup", CurIf, "true", 0))
    /\ pc' = "up_rules"
    /\ UNCHANGED <<mach, op, idx, raised, config, links, rules, sniffers, sniffer, pre>>

\* ip.link("add", ifname=ifname, kind="bridge"): a new link is down, with the
\* address the kernel gave it
CreateLinkAdd ==
    /\ pc = "create_add"
    /\ trace' = Append(trace, Ev("link_add", CurIf, "bridge", 0))
    /\ links' = [links EXCEPT ![CurIf] = [exists |-> TRUE, state |-> "down", mac |-> 0]]
    /\ pc' = "conf_down"
    /\ UNCHANGED <<mach, op, idx, raised, config, rules, sniffers, sniffer, pre>>

\* configure_vnet_interface: ip.link("set", index=dev, state="down")
ConfigureSetDown ==
    /\ pc = "conf_down"
    /\ trace' = Append(trace, Ev("link_set", CurIf, "down", 0))
    /\ links' = [links EXCEPT ![CurIf].state = "down"]
    /\ pc' = "conf_mac"
    /\ UNCHANGED <<mach, op, idx, raised, config, rules, sniffers, sniffer, pre>>

\* configure_vnet_interface: ip.link("set", index=dev, address=random_mac_generator());
\* mac counts the addresses generated for the link: 0 is the address the kernel gave
\* it, and every generated address is one the link did not have before
ConfigureSetMac ==
    /\ pc = "conf_mac"
    /\ trace' = Append(trace, Ev("link_set", CurIf, "address", links[CurIf].mac + 1))
    /\ links' = [links EXCEPT ![CurIf].mac = @ + 1]
    /\ pc' = "conf_up"
    /\ UNCHANGED <<mach, op, idx, raised, config, rules, sniffers, sniffer, pre>>

\* configure_vnet_interface: ip.link("set", index=dev, state="up")
ConfigureSetUp ==
    /\ pc = "conf_up"
    /\ trace' = Append(trace, Ev("link_set", CurIf, "up", 0))
    /\ links' = [links EXCEPT ![CurIf].state = "up"]
    /\ pc' = "up_rules"
    /\ UNCHANGED <<mach, op, idx, raised, config, rules, sniffers, sniffer, pre>>

(* create_vnet_interface_iptables_rules *)

\* mutant: the rule is appended although the check found it
RulePresentAppended ==
    /\ pc = "up_rules"
    /\ rules[CurIf] > 0
    /\ trace' = trace \o <<Ev("rule_check", CurIf, "true", 0), Ev("rule_add", CurIf, "ok", 0)>>
    /\ rules' = [rules EXCEPT ![CurIf] = @ + 1]
    /\ pc' = "up_set"
    /\ UNCHANGED <<mach, op, idx, raised, config, links, sniffers, sniffer, pre>>

\* `iptables -C OUTPUT -o ifname -j DROP` succeeds: the rule exists, nothing to do
RulePresent ==
    /\ pc = "up_rules"
    /\ rules[CurIf] > 0
    /\ trace' = Append(trace, Ev("rule_check", CurIf, "true", 0))
    /\ pc' = "up_set"
    /\ UNCHANGED <<mach, op, idx, raised, config, links, rules, sniffers, sniffer, pre>>

\* the check fails and `iptables -A OUTPUT -o ifname -j DROP` succeeds
RuleAdded ==
    /\ pc = "up_rules"
    /\ rules[CurIf] = 0
    /\ trace' = trace \o <<Ev("rule_check", CurIf, "false", 0), Ev("rule_add", CurIf, "ok", 0)>>
    /\ rules' = [rules EXCEPT ![CurIf] = @ + 1]
    /\ pc' = "up_set"
    /\ UNCHANGED <<mach, op, idx, raised, config, links, sniffers, sniffer, pre>>

\* the check fails and the append fails too: CalledProcessError, logged as an error
RuleAddFails ==
    /\ pc = "up_rules"
    /\ rules[CurIf] = 0
    /\ trace' = trace \o <<Ev("rule_check", CurIf, "false", 0),
                           Ev("rule_add", CurIf, "failed", 0),
                           Ev("log", CurIf, "error:rule_add_failed", 0)>>
    /\ pc' = "up_set"
    /\ UNCHANGED <<mach, op, idx, raised, config, links, rules, sniffers, sniffer, pre>>

\* ip.link("set", ifname=ifname, state="up")
UpSetUp ==
    /\ pc = "up_set"
    /\ trace' = Append(trace, Ev("link_set", CurIf, "up", 0))
    /\ links' = [links EXCEPT ![CurIf].state = "up"]
    /\ pc' = "up_sniff"
    /\ UNCHANGED <<mach, op, idx, raised, config, rules, sniffers, sniffer, pre>>

\* mutant: the capture is started without looking for a running one
UpStartSnifferUnchecked ==
    /\ pc = "up_sniff"
    /\ sniffer
    /\ trace' = Append(trace, Ev("spawn", CurIf, "tcpdump", 0))
    /\ sniffers' = [sniffers EXCEPT ![CurIf] = @ + 1]
    /\ idx' = idx + 1
    /\ pc' = "up_loop"
    /\ UNCHANGED <<mach, op, raised, config, links, rules, sniffer, pre>>

\* `sniffer and not check_if_sniffer_exists(ifname)`: start_tcpdump_on_vnet_interface
UpStartSniffer ==
    /\ pc = "up_sniff"
    /\ sniffer
    /\ ~SnifferExists(CurIf)
    /\ trace' = trace \o <<Ev("sniffer_check", CurIf, "false", 0), Ev("spawn", CurIf, "tcpdump", 0)>>
    /\ sniffers' = [sniffers EXCEPT ![CurIf] = @ + 1]
    /\ idx' = idx + 1
    /\ pc' = "up_loop"
    /\ UNCHANGED <<mach, op, raised, config, links, rules, sniffer, pre>>

\* a sniffer was asked for and one is running for the interface: nothing to start
UpSnifferRunning ==
    /\ pc = "up_sniff"
    /\ sniffer
    /\ SnifferExists(CurIf)
    /\ trace' = Append(trace, Ev("sniffer_check", CurIf, "true", 0))
    /\ idx' = idx + 1
    /\ pc' = "up_loop"
    /\ UNCHANGED <<mach, op, raised, config, links, rules, sniffers, sniffer, pre>>

\* no sniffer was asked for: check_if_sniffer_exists is not even called
UpNoSniffer ==
    /\ pc = "up_sniff"
    /\ ~sniffer
    /\ idx' = idx + 1
    /\ pc' = "up_loop"
    /\ UNCHANGED <<mach, op, trace, raised, config, links, rules, sniffers, sniffer, pre>>

(* bring_down_vnet_interfaces *)

\* bring_down_vnet_interfaces(config)
CallBringDown ==
    /\ BeginInterfaces("bring_down_vnet_interfaces")
    /\ pc' = "down_loop"
    /\ UNCHANGED <<mach, config, links, rules, sniffers, sniffer>>

\* the loop is over: return
DownReturn ==
    /\ pc = "down_loop"
    /\ ~InLoop
    /\ Finish("none")
    /\ UNCHANGED <<mach, op, idx, trace, config, links, rules, sniffers, sniffer, pre>>

\* the interface exists: it is going to be set down
DownInterfaceExists ==
    /\ pc = "down_loop"
    /\ InLoop
    /\ InterfaceExists(CurIf)
    /\ trace' = Append(trace, Ev("link_lookup", CurIf, "true", 0))
    /\ pc' = "down_set"
    /\ UNCHANGED <<mach, op, idx, raised, config, links, rules, sniffers, sniffer, pre>>

\* ip.link("set", ifname=ifname, state="down")
DownSetDown ==
    /\ pc = "down_set"
    /\ trace' = Append(trace, Ev("link_set", CurIf, "down", 0))
    /\ links' = [links EXCEPT ![CurIf].state = "down"]
    /\ idx' = idx + 1
    /\ pc' = "down_loop"
    /\ UNCHANGED <<mach, op, raised, config, rules, sniffers, sniffer, pre>>

\* the interface does not exist: log a warning, continue
DownInterfaceMissing ==
    /\ pc = "down_loop"
    /\ InLoop
    /\ ~InterfaceExists(CurIf)
    /\ trace' = trace \o <<Ev("link_lookup", CurIf, "false", 0),
                           Ev("log", CurIf, "warning:no_interface", 0)>>
    /\ idx' = idx + 1
    /\ UNCHANGED <<mach, pc, op, raised, config, links, rules, sniffers, sniffer, pre>>

(* delete_vnet_interfaces *)

\* delete_vnet_interfaces(config)
CallDeleteInterfaces ==
    /\ BeginInterfaces("delete_vnet_interfaces")
    /\ pc' = "del_loop"
    /\ UNCHANGED <<mach, config, links, rules, sniffers, sniffer>>

\* the loop is over: return
DeleteReturn ==
    /\ pc = "del_loop"
    /\ ~InLoop
    /\ Finish("none")
    /\ UNCHANGED <<mach, op, idx, trace, config, links, rules, sniffers, sniffer, pre>>

\* the interface exists: it is going to be deleted
DeleteInterfaceExists ==
    /\ pc = "del_loop"
    /\ InLoop
    /\ InterfaceExists(CurIf)
    /\ trace' = Append(trace, Ev("link_lookup", CurIf, "true", 0))
    /\ pc' = "del_link"
    /\ UNCHANGED <<mach, op, idx, raised, config, links, rules, sniffers, sniffer, pre>>

\* ip.link("del", ifname=ifname)
DeleteLink ==
    /\ pc = "del_link"
    /\ InterfaceExists(CurIf)
    /\ trace' = Append(trace, Ev("link_del", CurIf, "ok", 0))
    /\ links' = [links EXCEPT ![CurIf] = NoLink]
    /\ idx' = idx + 1
    /\ pc' = "del_loop"
    /\ UNCHANGED <<mach, op, raised, config, rules, sniffers, sniffer, pre>>

\* mutant: the delete is requested for an interface that does not exist
DeleteInterfaceMissingDeleted ==
    /\ pc = "del_loop"
    /\ InLoop
    /\ ~InterfaceExists(CurIf)
    /\ trace' = Append(trace, Ev("link_lookup", CurIf, "false", 0))
    /\ pc' = "del_link"
    /\ UNCHANGED <<mach, op, idx, raised, config, links, rules, sniffers, sniffer, pre>>

\* the interface does not exist: that is okay, continue
DeleteInterfaceMissing ==
    /\ pc = "del_loop"
    /\ InLoop
    /\ ~InterfaceExists(CurIf)
    /\ trace' = Append(trace, Ev("link_lookup", CurIf, "false", 0))
    /\ idx' = idx + 1
    /\ UNCHANGED <<mach, pc, op, raised, config, links, rules, sniffers, sniffer, pre>>

(* The interface operations as a program *)

MachinesIdle ==
    /\ settings = [attempts |-> MaxAttempts, sleep |-> 1, mult |-> 1]
    /\ lxd = [m \in ConfigMachines |-> [status |-> "NA", pending |-> "none"]]
    /\ pc = "done"
    /\ op = NoOp
    /\ idx = 1
    /\ to_create = <<>>
    /\ already = FALSE
    /\ container = NoContainer
    /\ wi = 1
    /\ target = ""
    /\ waitResult = "none"
    /\ trace = <<>>
    /\ raised = "none"

InitInterfaces ==
    /\ MachinesIdle
    /\ config \in {[switches |-> n, machines |-> DefaultMachines] : n \in 1..MaxSwitches}
    /\ links = [n \in AllIfNames |-> NoLink]
    /\ rules = [n \in AllIfNames |-> 0]
    /\ sniffers = [n \in AllIfNames |-> 0]
    /\ sniffer = FALSE
    /\ pre = [links |-> links, rules |-> rules]
    /\ netplan = NoDocument
    /\ devices = NoDocument
    /\ table = <<>>

NextInterfaces ==
    \/ \E sn \in BOOLEAN : CallBringUp(sn)
    \/ UpReturn
    \/ UpInterfaceMissing
    \/ UpInterfaceExists
    \/ CreateLinkAdd
    \/ ConfigureSetDown
    \/ ConfigureSetMac
    \/ ConfigureSetUp
    \/ RulePresent
    \/ RuleAdded
    \/ RuleAddFails
    \/ UpSetUp
    \/ UpStartSniffer
    \/ UpSnifferRunning
    \/ UpNoSniffer
    \/ CallBringDown
    \/ DownReturn
    \/ DownInterfaceExists
    \/ DownSetDown
    \/ DownInterfaceMissing
    \/ CallDeleteInterfaces
    \/ DeleteReturn
    \/ DeleteInterfaceExists
    \/ DeleteLink
    \/ DeleteInterfaceMissing
    \/ NetlinkFails
    \/ SnifferExits

SpecInterfaces == InitInterfaces /\ [][NextInterfaces]_vars

----------------------------------------------------------------------------
(* The documents compiled for a machine: generate_machine_netplan_config and the
   device_config of create_lxc_machines_from_base_image *)

\* dict.update: the keys of e are set in d
Update(d, e) == [k \in DOMAIN d \cup DOMAIN e |-> IF k \in DOMAIN e THEN e[k] ELSE d[k]]

no_dhcp == [dhcp4 |-> "no", dhcp6 |-> "no"]

\* mutant: ipv6 is appended before ipv4
AddressesIpv6First(data) ==
    (IF "ipv6" \in DOMAIN data THEN <<data["ipv6"]>> ELSE <<>>)
        \o (IF "ipv4" \in DOMAIN data THEN <<data["ipv4"]>> ELSE <<>>)

\* addresses = []; ipv4 is appended if it is in the data, then ipv6
Addresses(data) ==
    (IF "ipv4" \in DOMAIN data THEN <<data["ipv4"]>> ELSE <<>>)
        \o (IF "ipv6" \in DOMAIN data THEN <<data["ipv6"]>> ELSE <<>>)

\* network_conf["network"]["ethernets"][int_name]
EthernetEntry(int_name, int_data) ==
    LET entry == Update([match |-> [macaddress |-> int_data["mac"]],
                         addresses |-> Addresses(int_data)]
                            @@ ("set-name" :> int_name),
                        no_dhcp)
    IN  IF "routes" \in DOMAIN int_data
        THEN Update(entry, [routes |-> int_data["routes"]])
        ELSE entry

\* network_conf["network"]["vlans"][vlan]
VlanEntry(vlan_data) ==
    Update([id |-> vlan_data["id"], link |-> vlan_data["link"],
            addresses |-> vlan_data["addresses"]],
           no_dhcp)

\* mutant: the bridge entry is left without the dhcp settings
BridgeEntryDhcpUnset(br_data) ==
    [interfaces |-> br_data["slaves"], addresses |-> Addresses(br_data)]

\* network_conf["network"]["bridges"][br_name]
BridgeEntry(br_data) ==
    Update([interfaces |-> br_data["slaves"], addresses |-> Addresses(br_data)],
           no_dhcp)

\* generate_machine_netplan_config(config, machine)
GenerateMachineNetplanConfig(cfg, machine) ==
    LET machine_config == cfg.machines[machine]
        sections == {"ethernets"} \cup ({"vlans", "bridges"} \cap DOMAIN machine_config)
    IN  [network |->
            [k \in {"version", "renderer"} \cup sections |->
                CASE k = "version" -> 2
                  [] k = "renderer" -> "networkd"
                  [] k = "ethernets" ->
                        [i \in DOMAIN machine_config["interfaces"] |->
                            EthernetEntry(i, machine_config["interfaces"][i])]
                  [] k = "vlans" ->
                        [v \in DOMAIN machine_config["vlans"] |->
                            VlanEntry(machine_config["vlans"][v])]
                  [] k = "bridges" ->
                        [b \in DOMAIN machine_config["bridges"] |->
                            BridgeEntry(machine_config["bridges"][b])]]]

\* device_config of one container: eth0 of type none, then a bridged nic per
\* interface, its parent named after the bridge index as it stands in the config
DeviceConfig(cfg, cont) ==
    LET interfaces == cfg.machines[cont]["interfaces"]
    IN  [d \in {"eth0"} \cup DOMAIN interfaces |->
            IF d \in DOMAIN interfaces
            THEN [name |-> d,
                  host_name |-> <<cont, "-", d>>,
                  parent |-> IfName(interfaces[d]["bridge"]),
                  type |-> "nic",
                  nictype |-> "bridged",
                  hwaddr |-> interfaces[d]["mac"]]
            ELSE [type |-> "none"]]

(* The machine configurations the documents are compiled from *)

Subsets(S) == SUBSET S

\* the interfaces of a machine: eth1, and possibly eth2
InterfacesChoices ==
    {[i \in {"eth1"} |-> InterfaceData(b, "aa:bb:cc:dd:ee:01", o)] :
        b \in 0..MaxBridge, o \in Subsets({"ipv4", "ipv6", "routes"})}
    \cup
    {("eth1" :> InterfaceData(b, "aa:bb:cc:dd:ee:01", o))
        @@ ("eth2" :> InterfaceData(c, "aa:bb:cc:dd:ee:02", p)) :
        b \in 0..MaxBridge, o \in Subsets({"ipv4", "ipv6", "routes"}),
        c \in 0..MaxBridge, p \in Subsets({"ipv4"})}

VlansChoices ==
    {[v \in {"vlan.10"} |-> [id |-> 10, link |-> "eth1", addresses |-> a]] :
        a \in {<<>>, <<"10.0.10.1/24">>}}

BridgesChoices ==
    {[b \in {"br0"} |->
        [k \in {"slaves"} \cup o |->
            CASE k = "slaves" -> <<"eth1">>
              [] k = "ipv4" -> "10.0.1.1/24"
              [] k = "ipv6" -> "fd00:1::1/64"]] :
        o \in Subsets({"ipv4", "ipv6"})}

\* a machine of the config: type and interfaces, vlans and bridges if it has any
MachineChoices ==
    {[k \in {"type", "interfaces"} \cup s |->
        CASE k = "type" -> "host"
          [] k = "interfaces" -> i
          [] k = "vlans" -> v
          [] k = "bridges" -> b] :
        i \in InterfacesChoices, v \in VlansChoices, b \in BridgesChoices,
        s \in Subsets({"vlans", "bridges"})}

(* Compiling as a program *)

\* what compiling leaves alone
rest == <<settings, lxd, pc, op, idx, to_create, already, container, wi, target,
          waitResult, trace, raised, config, links, rules, sniffers, sniffer, pre, table>>

\* network_conf = generate_machine_netplan_config(config, container)
CompileNetplan(m) ==
    /\ netplan.result = "none"
    /\ netplan' = [result |-> "document", machine |-> m,
                   doc |-> GenerateMachineNetplanConfig(config, m)]
    /\ UNCHANGED <<rest, devices>>

\* the device_config of container m is built
CompileDevices(m) ==
    /\ devices.result = "none"
    /\ devices' = [result |-> "document", machine |-> m, doc |-> DeviceConfig(config, m)]
    /\ UNCHANGED <<rest, netplan>>

InitCompile ==
    /\ MachinesIdle
    /\ config \in {[switches |-> n,
                    machines |-> [m \in ConfigMachines |->
                                    IF m = ConfigKeys[1] THEN c ELSE DefaultMachines[m]]] :
                      n \in 1..MaxSwitches, c \in MachineChoices}
    /\ links = [n \in AllIfNames |-> NoLink]
    /\ rules = [n \in AllIfNames |-> 0]
    /\ sniffers = [n \in AllIfNames |-> 0]
    /\ sniffer = FALSE
    /\ pre = [links |-> links, rules |-> rules]
    /\ netplan = NoDocument
    /\ devices = NoDocument
    /\ table = <<>>

NextCompile ==
    \/ \E m \in ConfigMachines : CompileNetplan(m)
    \/ \E m \in ConfigMachines : CompileDevices(m)

SpecCompile == InitCompile /\ [][NextCompile]_vars

----------------------------------------------------------------------------
(* The status listings: show_status and show_vnet_interface_status *)

\* the interfaces of a machine in the order of its config
InterfaceOrder == <<"eth1", "eth2">>

\* the inner loop of get_machines_by_vnet_interface_name: m_name once for every
\* interface whose bridge equals the last character of ifname
RECURSIVE UsesOf(_, _, _, _)
UsesOf(cfg, m_name, ifname, k) ==
    IF k > Len(InterfaceOrder) THEN <<>>
    ELSE LET interfaces == cfg.machines[m_name]["interfaces"]
             hit == /\ InterfaceOrder[k] \in DOMAIN interfaces
                    /\ interfaces[InterfaceOrder[k]]["bridge"] = ifname[Len(ifname)]
         IN  (IF hit THEN <<m_name>> ELSE <<>>) \o UsesOf(cfg, m_name, ifname, k + 1)

\* get_machines_by_vnet_interface_name(config, ifname), from machine k of the config on
RECURSIVE MachinesByVnetInterfaceName(_, _, _)
MachinesByVnetInterfaceName(cfg, ifname, k) ==
    IF k > Len(ConfigKeys) THEN <<>>
    ELSE UsesOf(cfg, ConfigKeys[k], ifname, 1) \o MachinesByVnetInterfaceName(cfg, ifname, k + 1)

\* what the listings leave alone
listed == <<settings, lxd, to_create, already, container, wi, target, waitResult,
            config, links, rules, sniffers, sniffer, pre, netplan, devices>>

\* show_status(config)
CallShowStatus ==
    /\ pc = "done"
    /\ op' = [name |-> "show_status", status |-> "", arg |-> [given |-> FALSE, list |-> <<>>],
              machines |-> ConfigKeys]
    /\ idx' = 1
    /\ trace' = <<>>
    /\ raised' = "none"
    /\ table' = <<>>
    /\ pc' = "status_loop"
    /\ UNCHANGED listed

\* get_lxc_machine_status(name): the container is found, its status is the row
StatusRowFound ==
    /\ pc = "status_loop"
    /\ idx <= Len(op.machines)
    /\ lxd[Cur].status # "NA"
    /\ trace' = Append(trace, Ev("get", Cur, lxd[Cur].status, 0))
    /\ table' = Append(table, [name |-> Cur, status |-> lxd[Cur].status, provider |-> "LXC"])
    /\ idx' = idx + 1
    /\ UNCHANGED <<listed, pc, op, raised>>

\* get_lxc_machine_status(name): NotFound is caught, the status is NA
StatusRowNotFound ==
    /\ pc = "status_loop"
    /\ idx <= Len(op.machines)
    /\ lxd[Cur].status = "NA"
    /\ trace' = Append(trace, Ev("get", Cur, "NotFound", 0))
    /\ table' = Append(table, [name |-> Cur, status |-> "NA", provider |-> "LXC"])
    /\ idx' = idx + 1
    /\ UNCHANGED <<listed, pc, op, raised>>

\* get_lxc_machine_status(name): the backend cannot be reached; the exception is no
\* NotFound, nothing catches it and nothing is printed
StatusBackendUnreachable ==
    /\ pc = "status_loop"
    /\ idx <= Len(op.machines)
    /\ trace' = Append(trace, Ev("get", Cur, "raised", 0))
    /\ Finish("LXDAPIException")
    /\ UNCHANGED <<listed, op, idx, table>>

\* print(tabulate(statuses, ...))
StatusPrint ==
    /\ pc \in {"status_loop", "ifstatus_loop"}
    /\ \/ pc = "status_loop" /\ idx > Len(op.machines)
       \/ pc = "ifstatus_loop" /\ ~InLoop
    /\ trace' = Append(trace, Ev("print", "", "table", Len(table)))
    /\ Finish("none")
    /\ UNCHANGED <<listed, op, idx, table>>

\* show_vnet_interface_status(config)
CallShowVnetInterfaceStatus ==
    /\ pc = "done"
    /\ op' = [name |-> "show_vnet_interface_status", status |-> "",
              arg |-> [given |-> FALSE, list |-> <<>>], machines |-> <<>>]
    /\ idx' = 1
    /\ trace' = <<>>
    /\ raised' = "none"
    /\ table' = <<>>
    /\ pc' = "ifstatus_loop"
    /\ UNCHANGED listed

\* `not devs`: the link does not exist, the row is NA but for the name and the users
InterfaceRowMissing ==
    /\ pc = "ifstatus_loop"
    /\ InLoop
    /\ ~InterfaceExists(CurIf)
    /\ trace' = Append(trace, Ev("link_lookup", CurIf, "false", 0))
    /\ table' = Append(table, [name |-> CurIf, state |-> "NA", l2_addr |-> "NA", sniffer |-> "NA",
                               used_by |-> MachinesByVnetInterfaceName(config, CurIf, 1)])
    /\ idx' = idx + 1
    /\ UNCHANGED <<listed, pc, op, raised>>

\* the link exists: state and address from ip.link("get"), sniffer from the process list
InterfaceRowFound ==
    /\ pc = "ifstatus_loop"
    /\ InLoop
    /\ InterfaceExists(CurIf)
    /\ trace' = Append(trace, Ev("link_lookup", CurIf, "true", 0))
    /\ table' = Append(table, [name |-> CurIf, state |-> links[CurIf].state,
                               l2_addr |-> links[CurIf].mac, sniffer |-> SnifferExists(CurIf),
                               used_by |-> MachinesByVnetInterfaceName(config, CurIf, 1)])
    /\ idx' = idx + 1
    /\ UNCHANGED <<listed, pc, op, raised>>

\* a link as it may stand on the host
LinkChoices ==
    {NoLink}
        \cup {[exists |-> TRUE, state |-> s, mac |-> a] : s \in {"up", "down"}, a \in {0, 1}}

\* the interfaces of the first machine of the config: one, or two that may share a bridge
StatusInterfacesChoices ==
    {[i \in {"eth1"} |-> InterfaceData(b, "aa:bb:cc:dd:ee:01", {"ipv4"})] :
        b \in 0..(MaxSwitches - 1)}
    \cup
    {("eth1" :> InterfaceData(b, "aa:bb:cc:dd:ee:01", {"ipv4"}))
        @@ ("eth2" :> InterfaceData(c, "aa:bb:cc:dd:ee:02", {"ipv4"})) :
        b \in 0..(MaxSwitches - 1), c \in 0..(MaxSwitches - 1)}

InitStatus ==
    /\ settings = [attempts |-> MaxAttempts, sleep |-> 1, mult |-> 1]
    /\ lxd \in [ConfigMachines ->
                  {[status |-> s, pending |-> "none"] : s \in {"NA", "Running", "Stopped"}}]
    /\ pc = "done"
    /\ op = NoOp
    /\ idx = 1
    /\ to_create = <<>>
    /\ already = FALSE
    /\ container = NoContainer
    /\ wi = 1
    /\ target = ""
    /\ waitResult = "none"
    /\ trace = <<>>
    /\ raised = "none"
    /\ config \in {[switches |-> n,
                    machines |-> [m \in ConfigMachines |->
                                    IF m = ConfigKeys[1]
                                    THEN [type |-> "host", interfaces |-> i]
                                    ELSE DefaultMachines[m]]] :
                      n \in 1..MaxSwitches, i \in StatusInterfacesChoices}
    /\ links \in [AllIfNames -> LinkChoices]
    /\ \A n \in AllIfNames \ {VnetInterfaceNames(config)[k] : k \in 1..config.switches} :
          links[n] = NoLink
    /\ rules = [n \in AllIfNames |-> IF links[n].exists THEN 1 ELSE 0]
    /\ sniffers \in [AllIfNames -> {0, 1}]
    /\ \A n \in AllIfNames : sniffers[n] = 1 => links[n].state = "up"
    /\ sniffer = FALSE
    /\ pre = [links |-> links, rules |-> rules]
    /\ netplan = NoDocument
    /\ devices = NoDocument
    /\ table = <<>>

NextStatus ==
    \/ CallShowStatus
    \/ StatusRowFound
    \/ StatusRowNotFound
    \/ StatusBackendUnreachable
    \/ StatusPrint
    \/ CallShowVnetInterfaceStatus
    \/ InterfaceRowMissing
    \/ InterfaceRowFound

SpecStatus == InitStatus /\ [][NextStatus]_vars

\* C11: batch create asks for confirmation exactly when a requested machine was
\* found to exist already, once, as the last thing before it returns; when no
\* requested machine existed it does not ask.
C11_ConfirmationIffAlreadyCreated ==
    (op.name = "create_machines") =>
        LET asked   == Positions({"confirm"})
            existed == \E p \in 1..Len(trace) : trace[p].ev = "exists" /\ trace[p].arg = "true"
        IN  /\ Cardinality(asked) <= 1
            /\ \A p \in asked : existed /\ p = Len(trace) /\ pc = "done"
            /\ already = existed
            /\ (pc = "done" /\ raised # "LXDAPIException") => ((asked # {}) = existed)

\* a batch over an existing machine and a missing one: the missing one was
\* created, then the user was asked, then the batch returned
C11_Witness ==
    /\ op.name = "create_machines"
    /\ pc = "done"
    /\ raised = "none"
    /\ Len(trace) > 1
    /\ trace[Len(trace)] = Ev("confirm", "", "returned", 0)
    /\ \E p \in 1..Len(trace) : trace[p].ev = "create" /\ trace[p].arg = "ok"


----------------------------------------------------------------------------
(* Claims about the bridge interfaces *)

\* the interfaces the configuration declares
Declared == {VnetInterfaceNames(config)[k] : k \in 1..config.switches}

\* the events of the current interface operation about interface n
IfEvents(e, n, a) == {p \in 1..Len(trace) : trace[p].ev = e /\ trace[p].m = n /\ trace[p].arg = a}

BroughtUp == op.name = "bring_up_vnet_interfaces" /\ pc = "done" /\ raised = "none"

\* C12: after bring_up_vnet_interfaces returns, every declared bridge
\* exists, is up and has its egress-drop rule.
C12_EveryBridgeUpWithRule ==
    BroughtUp =>
        \A n \in Declared :
            /\ links[n].exists
            /\ links[n].state = "up"
            /\ rules[n] >= 1

\* the system was as bring-up leaves it when the current operation was called
PreCorrect ==
    \A n \in Declared :
        /\ pre.links[n].exists
        /\ pre.links[n].state = "up"
        /\ pre.rules[n] >= 1

\* C13: bring-up checks before it mutates (a link is added only after the lookup
\* found none, a rule only after the check found none, so no rule is duplicated),
\* and on a system that is already correct it creates no link, sets no address,
\* adds no rule and leaves links and rules as they were.
C13_BringUpIdempotent ==
    (op.name = "bring_up_vnet_interfaces") =>
        /\ \A p \in 1..Len(trace) :
              /\ trace[p].ev = "link_add" =>
                    p > 1 /\ trace[p - 1] = Ev("link_lookup", trace[p].m, "false", 0)
              /\ trace[p].ev = "rule_add" =>
                    p > 1 /\ trace[p - 1] = Ev("rule_check", trace[p].m, "false", 0)
        /\ \A n \in AllIfNames : rules[n] <= 1
        /\ PreCorrect =>
              /\ \A p \in 1..Len(trace) :
                    /\ trace[p].ev \notin {"link_add", "rule_add"}
                    /\ ~(trace[p].ev = "link_set" /\ trace[p].arg = "address")
              /\ links = pre.links
              /\ rules = pre.rules

C13_Witness ==
    /\ BroughtUp
    /\ PreCorrect
    /\ config.switches = MaxSwitches
    /\ Len(trace) >= 3 * MaxSwitches

\* C14: a capture is started only when sniffing was requested and the check found
\* none running for the bridge; no bridge ever has two captures; without the request
\* none is started.
C14_AtMostOneSniffer ==
    /\ \A n \in AllIfNames : sniffers[n] <= 1
    /\ (op.name = "bring_up_vnet_interfaces") =>
          \A p \in 1..Len(trace) :
              trace[p].ev = "spawn" =>
                  /\ sniffer
                  /\ p > 1
                  /\ trace[p - 1] = Ev("sniffer_check", trace[p].m, "false", 0)

C14_Witness ==
    /\ BroughtUp
    /\ sniffer
    /\ \E n, o \in Declared :
          /\ IfEvents("sniffer_check", n, "true") # {}
          /\ IfEvents("spawn", o, "tcpdump") # {}
          /\ sniffers[n] = 1
          /\ sniffers[o] = 1

TearingDown == op.name \in {"bring_down_vnet_interfaces", "delete_vnet_interfaces"}

\* C15: teardown acts on a link only after the lookup found it; an absent device
\* raises nothing (bring-down logs a warning for it); after delete returns no
\* declared bridge exists; a teardown that finds no declared bridge issues no
\* netlink mutation and returns.
C15_TeardownToleratesAbsent ==
    TearingDown =>
        /\ \A p \in 1..Len(trace) :
              /\ trace[p].ev \in {"link_set", "link_del", "netlink_error"} =>
                    p > 1 /\ trace[p - 1] = Ev("link_lookup", trace[p].m, "true", 0)
              /\ (trace[p] = Ev("link_lookup", trace[p].m, "false", 0)
                    /\ op.name = "bring_down_vnet_interfaces") =>
                    p < Len(trace) /\ trace[p + 1] = Ev("log", trace[p].m, "warning:no_interface", 0)
        /\ (op.name = "delete_vnet_interfaces" /\ pc = "done" /\ raised = "none") =>
              \A n \in Declared : ~links[n].exists
        /\ (\A n \in Declared : ~pre.links[n].exists) =>
              /\ raised = "none"
              /\ links = pre.links
              /\ \A p \in 1..Len(trace) : trace[p].ev = "link_lookup" \/ trace[p].ev = "log"

C15_Witness ==
    /\ op.name = "delete_vnet_interfaces"
    /\ pc = "done"
    /\ raised = "none"
    /\ \E n, o \in Declared :
          /\ IfEvents("link_lookup", n, "false") # {}
          /\ IfEvents("link_del", o, "ok") # {}

----------------------------------------------------------------------------
(* Claims about the compiled documents *)

\* every interface of machine m is bound to a declared switch index
BridgesInRange(m) ==
    \A i \in DOMAIN config.machines[m]["interfaces"] :
        config.machines[m]["interfaces"][i]["bridge"] \in 0..(config.switches - 1)

\* C16: a machine with an interface whose bridge index is outside 0..switches-1 is
\* refused: no network document and no device entry is produced for it.
C16_OutOfRangeBridgeRejected ==
    /\ netplan.result = "document" => BridgesInRange(netplan.machine)
    /\ devices.result = "document" =>
          /\ BridgesInRange(devices.machine)
          /\ \A d \in DOMAIN devices.doc :
                devices.doc[d]["type"] = "nic" => devices.doc[d]["parent"] \in Declared

\* C18: every entry of the ethernets section, and of the vlans and bridges sections
\* when the machine has them, carries dhcp4 = "no" and dhcp6 = "no".
C18_DhcpDisabledEverywhere ==
    (netplan.result = "document") =>
        LET net == netplan.doc.network
            machine_config == config.machines[netplan.machine]
        IN  /\ "ethernets" \in DOMAIN net
            /\ DOMAIN net["ethernets"] = DOMAIN machine_config["interfaces"]
            /\ \A s \in {"vlans", "bridges"} :
                  /\ (s \in DOMAIN net) = (s \in DOMAIN machine_config)
                  /\ s \in DOMAIN net => DOMAIN net[s] = DOMAIN machine_config[s]
            /\ \A s \in {"ethernets", "vlans", "bridges"} \cap DOMAIN net :
                  \A e \in DOMAIN net[s] :
                      /\ {"dhcp4", "dhcp6"} \subseteq DOMAIN net[s][e]
                      /\ net[s][e]["dhcp4"] = "no"
                      /\ net[s][e]["dhcp6"] = "no"

C18_Witness ==
    /\ netplan.result = "document"
    /\ {"vlans", "bridges"} \subseteq DOMAIN netplan.doc.network
    /\ Cardinality(DOMAIN netplan.doc.network["ethernets"]) = 2
    /\ "routes" \in DOMAIN netplan.doc.network["ethernets"]["eth1"]
    /\ Len(netplan.doc.network["bridges"]["br0"]["addresses"]) = 2

\* C19: the addresses of an ethernets entry are the present address fields of the
\* interface, ipv4 before ipv6: [ipv4, ipv6], [ipv4], [ipv6] or the empty list.
C19_AddressesIpv4ThenIpv6 ==
    (netplan.result = "document") =>
        \A i \in DOMAIN config.machines[netplan.machine]["interfaces"] :
            LET int_data == config.machines[netplan.machine]["interfaces"][i]
                entry    == netplan.doc.network["ethernets"][i]
                has4     == "ipv4" \in DOMAIN int_data
                has6     == "ipv6" \in DOMAIN int_data
            IN  /\ "addresses" \in DOMAIN entry
                /\ (has4 /\ has6) => entry["addresses"] = <<int_data["ipv4"], int_data["ipv6"]>>
                /\ (has4 /\ ~has6) => entry["addresses"] = <<int_data["ipv4"]>>
                /\ (~has4 /\ has6) => entry["addresses"] = <<int_data["ipv6"]>>
                /\ (~has4 /\ ~has6) => entry["addresses"] = <<>>

C19_Witness ==
    /\ netplan.result = "document"
    /\ "eth2" \in DOMAIN netplan.doc.network["ethernets"]
    /\ Len(netplan.doc.network["ethernets"]["eth1"]["addresses"]) = 2
    /\ netplan.doc.network["ethernets"]["eth2"]["addresses"] = <<>>


----------------------------------------------------------------------------
(* Claims about the status listings *)

\* C17: the status listing is always produced: show_status ends by printing one row
\* per machine of the config, with status NA for a machine the backend does not find
\* or cannot be asked about, and show_vnet_interface_status ends by printing one row
\* per declared bridge, with NA fields for a bridge that does not exist.
C17_StatusListingAlwaysProduced ==
    /\ (op.name = "show_status" /\ pc = "done") =>
          /\ raised = "none"
          /\ trace[Len(trace)].ev = "print"
          /\ Len(table) = Len(ConfigKeys)
          /\ \A k \in 1..Len(table) :
                /\ table[k].name = ConfigKeys[k]
                /\ lxd[ConfigKeys[k]].status = "NA" => table[k].status = "NA"
    /\ (op.name = "show_vnet_interface_status" /\ pc = "done") =>
          /\ raised = "none"
          /\ trace[Len(trace)].ev = "print"
          /\ Len(table) = config.switches
          /\ \A k \in 1..Len(table) :
                /\ table[k].name = VnetInterfaceNames(config)[k]
                /\ ~links[table[k].name].exists =>
                      /\ table[k].state = "NA"
                      /\ table[k].l2_addr = "NA"
                      /\ table[k].sniffer = "NA"


----------------------------------------------------------------------------
(* Claims about the order of a start or stop *)

RequiredState == IF op.status = "stop" THEN "Stopped" ELSE "Running"

\* C20: a start or stop of an existing container is: the command, then the settle
\* delay of 1, then the polling for Running (start) or Stopped (stop); every probe
\* comes after the command, with only the delays and probes of that machine between;
\* a start that fails is logged and neither delay nor probe follows for that machine.
C20_CommandSettlePoll ==
    (op.name = "change_machine_status") =>
        /\ \A p \in 1..Len(trace) :
              LET e == trace[p] IN
              /\ (e.ev \in {"start", "stop"} /\ e.arg = "ok") =>
                    /\ e.ev = op.status
                    /\ p > 1 /\ trace[p - 1].ev = "get" /\ trace[p - 1].m = e.m
                    /\ IF p < Len(trace)
                       THEN trace[p + 1] = Ev("sleep", e.m, "settle", 1)
                       ELSE pc = "clms_nap" \/ raised # "none"
              /\ (e.ev = "sleep" /\ e.arg = "settle") =>
                    /\ e.n = 1
                    /\ p > 1 /\ trace[p - 1] = Ev(op.status, e.m, "ok", 0)
                    /\ IF p < Len(trace)
                       THEN \/ trace[p + 1].ev = "probe" /\ trace[p + 1].m = e.m /\ trace[p + 1].n = 1
                            \/ trace[p + 1] = Ev("log", e.m, "error:timeout", 0)
                       ELSE pc \in {"wait", "wait_ret"}
              /\ e.ev = "probe" =>
                    \E q \in 1..(p - 1) :
                        /\ trace[q] = Ev(op.status, e.m, "ok", 0)
                        /\ trace[q + 1] = Ev("sleep", e.m, "settle", 1)
                        /\ \A r \in (q + 1)..(p - 1) :
                              trace[r].ev \in {"sleep", "probe"} /\ trace[r].m = e.m
              /\ (e.ev = "start" /\ e.arg = "raised") =>
                    /\ p < Len(trace)
                    /\ trace[p + 1] = Ev("log", e.m, "error:start_failed", 0)
                    /\ p + 2 <= Len(trace) => trace[p + 2].ev \notin {"sleep", "probe"}
                    /\ p + 2 > Len(trace) => pc \notin {"clms_nap", "wait", "wait_sleep", "wait_ret"}
        /\ pc \in {"wait", "wait_sleep", "wait_ret"} => target = RequiredState
        /\ (pc = "wait_ret" /\ waitResult = "ok") =>
              /\ trace[Len(trace)].ev = "probe"
              /\ Lower(trace[Len(trace)].arg) = Lower(RequiredState)

C20_Witness ==
    /\ op.name = "change_machine_status"
    /\ op.status = "start"
    /\ pc = "done"
    /\ raised = "none"
    /\ \E p, q \in 1..Len(trace) :
          /\ trace[p].ev = "start" /\ trace[p].arg = "raised"
          /\ trace[q].ev = "start" /\ trace[q].arg = "ok"
          /\ q + 2 <= Len(trace)
          /\ trace[q + 2] = Ev("probe", trace[q].m, "Running", 1)


----------------------------------------------------------------------------
(* Claims about the address and the rule of a bridge during bring-up *)

\* C21: bring-up sets a generated MAC only on a bridge it has just created, between
\* setting it down and setting it up, once; a bridge that existed before the run
\* keeps the MAC it had.
C21_MacOnlyOnCreation ==
    (op.name = "bring_up_vnet_interfaces") =>
        /\ \A p \in 1..Len(trace) :
              (trace[p].ev = "link_set" /\ trace[p].arg = "address") =>
                  LET n == trace[p].m IN
                  /\ ~pre.links[n].exists
                  /\ p > 2
                  /\ trace[p - 2] = Ev("link_add", n, "bridge", 0)
                  /\ trace[p - 1] = Ev("link_set", n, "down", 0)
                  /\ IF p < Len(trace)
                     THEN trace[p + 1] \in {Ev("link_set", n, "up", 0),
                                            Ev("netlink_error", n, "conf_up", 0)}
                     ELSE pc = "conf_up" /\ links[n].state = "down"
                  /\ Cardinality(IfEvents("link_set", n, "address")) = 1
        /\ \A n \in AllIfNames :
              pre.links[n].exists => links[n].exists /\ links[n].mac = pre.links[n].mac

C21_Witness ==
    /\ BroughtUp
    /\ \E n, o \in Declared :
          /\ pre.links[n].exists
          /\ pre.links[n].mac = 1
          /\ links[n].mac = 1
          /\ ~pre.links[o].exists
          /\ links[o].mac = 1
          /\ Ev("link_set", o, "address", 1) \in {trace[p] : p \in 1..Len(trace)}


\* C22: during bring-up, a bridge the run has created is never up without its
\* egress-drop rule: the rule is there before the device is first set up.
C22_NeverUpWithoutRule ==
    (op.name = "bring_up_vnet_interfaces") =>
        \A n \in Declared :
            (~pre.links[n].exists /\ links[n].exists /\ links[n].state = "up") =>
                rules[n] >= 1


----------------------------------------------------------------------------
(* Claims about the machines a batch acts on *)

\* C23: a batch that is given an explicit list starts, stops, creates or destroys
\* only machines named in the list (none for an empty list); a batch whose list is
\* omitted goes through all machines of the config.
C23_ExplicitListOnly ==
    (op.name \in {"change_machine_status", "create_machines", "destroy_machines"}) =>
        /\ op.arg.given =>
              \A p \in 1..Len(trace) :
                  trace[p].ev \in {"start", "stop", "create", "write", "delete"} =>
                      \E k \in 1..Len(op.arg.list) : op.arg.list[k] = trace[p].m
        /\ ~op.arg.given => op.machines = ConfigKeys


----------------------------------------------------------------------------
(* Claims about the users of a bridge *)

\* the machines of the config with at least one interface on bridge i
UsersOfBridge(i) ==
    {m \in ConfigMachines :
        \E d \in DOMAIN config.machines[m]["interfaces"] :
            config.machines[m]["interfaces"][d]["bridge"] = i}

\* C24: the 'used by' list of the bridge of switch index i holds exactly the machines
\* with an interface on bridge i, each of them once.
C24_UsedByExactlyTheUsers ==
    (op.name = "show_vnet_interface_status") =>
        \A k \in 1..Len(table) :
            LET used_by == table[k].used_by IN
            /\ {used_by[j] : j \in 1..Len(used_by)} = UsersOfBridge(k - 1)
            /\ Len(used_by) = Cardinality(UsersOfBridge(k - 1))

====
